---- MODULE Spec2Model ----
(***************************************************************************)
(* Space Mission Control API (src/05-fastapi-pydantic): the in-memory      *)
(* store of main.py, its request handlers, and the Pydantic models of      *)
(* models.py that validate every request body before a handler runs.       *)
(*                                                                         *)
(* Every handler is an `async def` without a single await: once the event  *)
(* loop starts it, it runs to its return or raise before any other         *)
(* handler runs.  One handler execution is therefore one action.           *)
(***************************************************************************)
EXTENDS Integers, Sequences, FiniteSets, Bags, TLC

VARIABLES
    astronauts_db,          \* main.py:36  Dict[int, Astronaut]
    missions_db,            \* main.py:37  Dict[int, Mission]
    crew_assignments,       \* main.py:38  List[Dict], as the bag of its elements: the
                            \* code appends to it and scans it, never reads a position
    astronaut_id_counter,   \* main.py:41
    mission_id_counter,     \* main.py:42
    response,               \* the answer to the last request: status code and detail
    returned,               \* the content of that answer: what the handler returned
    issued,                 \* history: the identifiers returned by the creates, in order
    fresh,                  \* history: what the create of a crew member returned, for
                            \* the crew members not updated or deleted since
    inflight,               \* assign requests decoded and waiting for the event loop
    candidate,              \* the crew-member body the client of SpecValidate submits
    now                     \* datetime.now(), in whole ticks

vars == <<astronauts_db, missions_db, crew_assignments, astronaut_id_counter,
          mission_id_counter, response, returned, issued, fresh, inflight,
          candidate, now>>

\* what no handler touches
env == <<fresh, inflight, candidate, now>>

store == <<astronauts_db, missions_db, crew_assignments, astronaut_id_counter,
           mission_id_counter>>

-----------------------------------------------------------------------------
(* Bounds of the model.                                                    *)

\* successful creates (crew members and missions together) in one behaviour
MaxRecords == 3
\* assign requests waiting for the event loop at one time
MaxInflight == 2
\* the last tick of the clock
MaxClock == 3

-----------------------------------------------------------------------------
(* Text.  A str is a sequence of one-character strings.                    *)

Digits == {"0", "1", "2", "3", "4", "5", "6", "7", "8", "9"}
Whitespace == {" "}

isdigit(char) == char \in Digits

RECURSIVE lstrip(_)
lstrip(v) ==
    IF v = <<>> THEN v
    ELSE IF Head(v) \in Whitespace THEN lstrip(Tail(v)) ELSE v

RECURSIVE rstrip(_)
rstrip(v) ==
    IF v = <<>> THEN v
    ELSE IF v[Len(v)] \in Whitespace THEN rstrip(SubSeq(v, 1, Len(v) - 1)) ELSE v

strip(v) == rstrip(lstrip(v))

upper(char) ==
    CASE char = "a" -> "A" [] char = "l" -> "L" [] char = "m" -> "M"
      [] char = "o" -> "O" [] OTHER -> char

lower(char) ==
    CASE char = "A" -> "a" [] char = "L" -> "l" [] char = "M" -> "m"
      [] char = "O" -> "o" [] OTHER -> char

iscased(char) == upper(char) # char \/ lower(char) # char

\* str.title(): a cased character is upper-cased when the one before it is
\* uncased (or there is none) and lower-cased otherwise.
title(v) ==
    [i \in 1..Len(v) |->
        IF i = 1 \/ ~iscased(v[i - 1]) THEN upper(v[i]) ELSE lower(v[i])]

-----------------------------------------------------------------------------
(* models.py: the field constraints and validators.  A model is built from *)
(* a body field by field, in declaration order; a field's constraints run  *)
(* before its validator, and a validator sees in info.data the fields      *)
(* that came before it and passed.  Every failing field is reported.       *)

NoId == 0       \* id: Optional[int], default None; the counters never issue 0
NoDate == 0     \* launch_date: Optional[datetime], default None

NameMinLength == 2
NameMaxLength == 100
AgeMin == 21
AgeMax == 65
ExperienceMin == 0
ExperienceMax == 40
WorkingAge == 18
MissionNameMinLength == 3
MissionNameMaxLength == 100
DurationMin == 1
DurationMax == 1000
CapacityMin == 1
CapacityMax == 10
CrewCountMin == 0
AssignmentIdMin == 1

Specializations == {"pilot", "engineer", "scientist", "medic", "commander"}
Statuses == {"planning", "active", "completed", "cancelled"}
Roles == {"commander", "pilot", "engineer", "scientist", "medic", "specialist"}

\* EmailStr: the addresses of the model that the email syntax check accepts
EmailStr == {"sarah.connor@nasa.space"}

\* mutant: the name is checked for digits and returned as it came
name_without_strip(v) ==
    IF \E i \in 1..Len(v) : isdigit(v[i])
    THEN [ok |-> FALSE, value |-> v]
    ELSE [ok |-> TRUE, value |-> v]

\* Astronaut.name: Field(min_length=2, max_length=100), then the validator
name_must_not_contain_numbers(v) ==
    IF \E i \in 1..Len(v) : isdigit(v[i])
    THEN [ok |-> FALSE, value |-> v]
    ELSE [ok |-> TRUE, value |-> strip(v)]

AstronautName(v) ==
    IF Len(v) < NameMinLength \/ Len(v) > NameMaxLength
    THEN [ok |-> FALSE, value |-> v]
    ELSE name_must_not_contain_numbers(v)

AstronautAge(v) == v >= AgeMin /\ v <= AgeMax

\* the validator of years_of_experience; age is info.data.get('age'): None
\* when the age field failed, since a failed field is not in info.data.  `if
\* age and ...` takes None and 0 alike, and NoAge stands for both.
NoAge == 0

\* mutant: the bound is one year too generous
experience_off_by_one(v, age) ==
    ~(age # NoAge /\ v > age - WorkingAge + 1)

experience_must_be_reasonable_for_age(v, age) ==
    ~(age # NoAge /\ v > age - WorkingAge)

AstronautExperience(v, age) ==
    /\ v >= ExperienceMin /\ v <= ExperienceMax
    /\ experience_must_be_reasonable_for_age(v, age)

\* Astronaut(**body): the failing fields of a body and, when there is none,
\* the model instance
Astronaut(body) ==
    LET name == AstronautName(body.name)
        age == IF AstronautAge(body.age) THEN body.age ELSE NoAge IN
    [errors |->
           (IF name.ok THEN {} ELSE {"name"})
        \cup (IF AstronautAge(body.age) THEN {} ELSE {"age"})
        \cup (IF body.email \in EmailStr THEN {} ELSE {"email"})
        \cup (IF body.specialization \in Specializations THEN {}
              ELSE {"specialization"})
        \cup (IF AstronautExperience(body.years_of_experience, age) THEN {}
              ELSE {"years_of_experience"}),
     model |-> [body EXCEPT !.name = name.value]]

\* Mission.name: Field(min_length=3, max_length=100), then the validator
name_must_be_capitalized(v) == title(strip(v))

MissionName(v) ==
    IF Len(v) < MissionNameMinLength \/ Len(v) > MissionNameMaxLength
    THEN [ok |-> FALSE, value |-> v]
    ELSE [ok |-> TRUE, value |-> name_must_be_capitalized(v)]

MissionDestination(v) ==
    Len(v) >= MissionNameMinLength /\ Len(v) <= MissionNameMaxLength

MissionDuration(v) == v >= DurationMin /\ v <= DurationMax

launch_date_must_be_future(v, clock) == ~(v # NoDate /\ v < clock)

MissionCapacity(v) == v >= CapacityMin /\ v <= CapacityMax

\* the validator of current_crew_count; capacity is
\* info.data.get('crew_capacity'): None when that field failed.  `if capacity
\* and ...` takes None and 0 alike, and NoCapacity stands for both.
NoCapacity == 0

\* mutant: the count may exceed the capacity by one
crew_count_off_by_one(v, capacity) ==
    ~(capacity # NoCapacity /\ v > capacity + 1)

crew_count_cannot_exceed_capacity(v, capacity) ==
    ~(capacity # NoCapacity /\ v > capacity)

MissionCrewCount(v, capacity) ==
    /\ v >= CrewCountMin
    /\ crew_count_cannot_exceed_capacity(v, capacity)

\* Mission(**body), validated when the clock shows `clock`
Mission(body, clock) ==
    LET name == MissionName(body.name)
        capacity == IF MissionCapacity(body.crew_capacity)
                    THEN body.crew_capacity ELSE NoCapacity IN
    [errors |->
           (IF name.ok THEN {} ELSE {"name"})
        \cup (IF MissionDestination(body.destination) THEN {} ELSE {"destination"})
        \cup (IF MissionDuration(body.duration_days) THEN {} ELSE {"duration_days"})
        \cup (IF body.status \in Statuses THEN {} ELSE {"status"})
        \cup (IF launch_date_must_be_future(body.launch_date, clock) THEN {}
              ELSE {"launch_date"})
        \cup (IF MissionCapacity(body.crew_capacity) THEN {} ELSE {"crew_capacity"})
        \cup (IF MissionCrewCount(body.current_crew_count, capacity) THEN {}
              ELSE {"current_crew_count"}),
     model |-> [body EXCEPT !.name = name.value]]

-----------------------------------------------------------------------------
(* The bodies the clients of the model submit.                             *)

SarahConnor ==
    [id |-> NoId, name |-> <<"A", "l">>, age |-> 35,
     email |-> "sarah.connor@nasa.space", specialization |-> "pilot",
     years_of_experience |-> 12, active |-> TRUE]

AstronautBodies ==
    {[SarahConnor EXCEPT !.id = 7, !.name = <<" ", "A", "l", " ">>],
     [SarahConnor EXCEPT !.active = FALSE],
     [SarahConnor EXCEPT !.years_of_experience = 25]}

MarsOdyssey ==
    [id |-> NoId, name |-> <<"m", "a", " ", "o">>, destination |-> <<"M", "a", "l">>,
     duration_days |-> 180, status |-> "planning", launch_date |-> NoDate,
     crew_capacity |-> 1, current_crew_count |-> 0]

MissionBodies ==
    {[MarsOdyssey EXCEPT !.id = 7],
     [MarsOdyssey EXCEPT !.crew_capacity = 2],
     [MarsOdyssey EXCEPT !.crew_capacity = 2, !.current_crew_count = 2],
     [MarsOdyssey EXCEPT !.current_crew_count = 2]}

\* the bodies of the client of SpecValidate
WideAges == (AgeMin - 1)..(AgeMax + 1)
WideExperiences == (ExperienceMin - 1)..(ExperienceMax + 1)

WideBodies ==
    {[SarahConnor EXCEPT !.age = a, !.years_of_experience = y, !.name = n] :
        a \in WideAges, y \in WideExperiences,
        n \in {<<"A", "l">>, <<"A", "1">>}}

\* the roles the clients use
ClientRoles == {"commander"}

\* the identifiers the clients name: every one a counter has issued, and the
\* next one, which names nothing
AstronautIds == 1..astronaut_id_counter
MissionIds == 1..mission_id_counter

\* the CrewAssignment instances the clients' bodies bind to: astronaut_id and
\* mission_id are ge=1, role is one of Roles
CrewAssignment ==
    [astronaut_id : AssignmentIdMin..astronaut_id_counter,
     mission_id : AssignmentIdMin..mission_id_counter,
     role : ClientRoles \cap Roles]

-----------------------------------------------------------------------------
(* main.py: the store and the handlers.                                    *)

\* an answer without content: an error, or the 204 of delete
NoContent == <<>>

Response(status, error) ==
    [status |-> status, error |-> error, fields |-> {}]

\* raise HTTPException(status_code, detail): nothing is stored
HTTPException(status, error) ==
    /\ response' = Response(status, error)
    /\ returned' = NoContent
    /\ UNCHANGED <<store, issued>>

\* a body that fails its model never reaches the handler: FastAPI answers 422
\* with the failing fields
RequestValidationError(errors) ==
    /\ response' = [status |-> 422, error |-> "validation", fields |-> errors]
    /\ returned' = NoContent
    /\ UNCHANGED <<store, issued>>

\* mutant: an id sent in the body is kept
with_body_id(record, id) ==
    IF record.id # NoId THEN record ELSE [record EXCEPT !.id = id]

\* main.py:95, 192, 254, 343: the id of the body is overwritten
with_id(record, id) == [record EXCEPT !.id = id]

Put(db, key, value) ==
    [k \in DOMAIN db \cup {key} |-> IF k = key THEN value ELSE db[k]]

Del(db, key) == [k \in DOMAIN db \ {key} |-> db[k]]

RecordsCreated == (astronaut_id_counter - 1) + (mission_id_counter - 1)

InitStore ==
    /\ astronauts_db = <<>>
    /\ missions_db = <<>>
    /\ crew_assignments = EmptyBag
    /\ astronaut_id_counter = 1
    /\ mission_id_counter = 1
    /\ response = Response(0, "none")
    /\ returned = NoContent
    /\ issued = [astronaut |-> <<>>, mission |-> <<>>]
    /\ fresh = <<>>
    /\ inflight = {}
    /\ now = 1

Init == InitStore /\ candidate = SarahConnor

\* mutant: the counter is incremented before the id is taken from it
create_astronaut_incrementing_first(astronaut) ==
    LET stored == with_id(astronaut, astronaut_id_counter + 1) IN
    /\ RecordsCreated < MaxRecords
    /\ astronaut_id_counter' = astronaut_id_counter + 1
    /\ astronauts_db' = Put(astronauts_db, stored.id, stored)
    /\ response' = Response(201, "none")
    /\ returned' = stored
    /\ issued' = [issued EXCEPT !.astronaut = Append(@, stored.id)]
    /\ UNCHANGED <<missions_db, crew_assignments, mission_id_counter>>

create_astronaut(astronaut) ==
    LET stored == with_id(astronaut, astronaut_id_counter) IN
    /\ RecordsCreated < MaxRecords
    /\ astronaut_id_counter' = astronaut_id_counter + 1
    /\ astronauts_db' = Put(astronauts_db, stored.id, stored)
    /\ response' = Response(201, "none")
    /\ returned' = stored
    /\ issued' = [issued EXCEPT !.astronaut = Append(@, stored.id)]
    /\ UNCHANGED <<missions_db, crew_assignments, mission_id_counter>>

\* mutant: the update of an identifier that names nothing stores the body
\* under it
update_astronaut_upserting(astronaut_id, astronaut_update) ==
    LET stored == with_id(astronaut_update, astronaut_id) IN
    /\ astronauts_db' = Put(astronauts_db, astronaut_id, stored)
    /\ response' = Response(200, "none")
    /\ returned' = stored
    /\ UNCHANGED <<missions_db, crew_assignments, astronaut_id_counter,
                   mission_id_counter, issued>>

update_astronaut(astronaut_id, astronaut_update) ==
    IF astronaut_id \notin DOMAIN astronauts_db
    THEN HTTPException(404, "astronaut_not_found")
    ELSE LET stored == with_id(astronaut_update, astronaut_id) IN
         /\ astronauts_db' = Put(astronauts_db, astronaut_id, stored)
         /\ response' = Response(200, "none")
         /\ returned' = stored
         /\ UNCHANGED <<missions_db, crew_assignments, astronaut_id_counter,
                        mission_id_counter, issued>>

\* mutant: the delete cascades to the crew member's assignment records and
\* to the crew counts of their missions
delete_astronaut_cascading(astronaut_id) ==
    IF astronaut_id \notin DOMAIN astronauts_db
    THEN HTTPException(404, "astronaut_not_found")
    ELSE LET kept == {a \in BagToSet(crew_assignments) :
                         a.astronaut_id # astronaut_id} IN
         /\ astronauts_db' = Del(astronauts_db, astronaut_id)
         /\ crew_assignments' = [a \in kept |-> CopiesIn(a, crew_assignments)]
         /\ missions_db' =
               [m \in DOMAIN missions_db |->
                   IF \E a \in BagToSet(crew_assignments) :
                         a.astronaut_id = astronaut_id /\ a.mission_id = m
                   THEN [missions_db[m] EXCEPT !.current_crew_count = @ - 1]
                   ELSE missions_db[m]]
         /\ response' = Response(204, "none")
         /\ returned' = NoContent
         /\ UNCHANGED <<astronaut_id_counter, mission_id_counter, issued>>

delete_astronaut(astronaut_id) ==
    IF astronaut_id \notin DOMAIN astronauts_db
    THEN HTTPException(404, "astronaut_not_found")
    ELSE /\ astronauts_db' = Del(astronauts_db, astronaut_id)
         /\ response' = Response(204, "none")
         /\ returned' = NoContent
         /\ UNCHANGED <<missions_db, crew_assignments, astronaut_id_counter,
                        mission_id_counter, issued>>

create_mission(mission) ==
    LET stored == with_id(mission, mission_id_counter) IN
    /\ RecordsCreated < MaxRecords
    /\ mission_id_counter' = mission_id_counter + 1
    /\ missions_db' = Put(missions_db, stored.id, stored)
    /\ response' = Response(201, "none")
    /\ returned' = stored
    /\ issued' = [issued EXCEPT !.mission = Append(@, stored.id)]
    /\ UNCHANGED <<astronauts_db, crew_assignments, astronaut_id_counter>>

\* mutant: the update sets current_crew_count to the number of assignment
\* records of the mission
update_mission_recounting(mission_id, mission_update) ==
    IF mission_id \notin DOMAIN missions_db
    THEN HTTPException(404, "mission_not_found")
    ELSE LET stored == [with_id(mission_update, mission_id) EXCEPT
                           !.current_crew_count =
                               BagCardinality(
                                   [a \in {b \in BagToSet(crew_assignments) :
                                              b.mission_id = mission_id}
                                       |-> CopiesIn(a, crew_assignments)])] IN
         /\ missions_db' = Put(missions_db, mission_id, stored)
         /\ response' = Response(200, "none")
         /\ returned' = stored
         /\ UNCHANGED <<astronauts_db, crew_assignments, astronaut_id_counter,
                        mission_id_counter, issued>>

update_mission(mission_id, mission_update) ==
    IF mission_id \notin DOMAIN missions_db
    THEN HTTPException(404, "mission_not_found")
    ELSE LET stored == with_id(mission_update, mission_id) IN
         /\ missions_db' = Put(missions_db, mission_id, stored)
         /\ response' = Response(200, "none")
         /\ returned' = stored
         /\ UNCHANGED <<astronauts_db, crew_assignments, astronaut_id_counter,
                        mission_id_counter, issued>>

\* list.append
append(list, element) == list (+) SetToBag({element})

\* mutant: > for >=
at_full_capacity_strict(mission) ==
    mission.current_crew_count > mission.crew_capacity

\* mutant: the count is compared with the largest capacity a mission may have
at_full_capacity_of_any(mission) == mission.current_crew_count >= CapacityMax

\* main.py:410, the capacity check
at_full_capacity(mission) == mission.current_crew_count >= mission.crew_capacity

\* mutant: the two identifiers are compared with the wrong keys
already_assigned_swapped(astronaut_id, mission_id) ==
    \E existing_assignment \in BagToSet(crew_assignments) :
        /\ existing_assignment.astronaut_id = mission_id
        /\ existing_assignment.mission_id = astronaut_id

\* main.py:417-419, the scan of crew_assignments for the same pair
already_assigned(astronaut_id, mission_id) ==
    \E existing_assignment \in BagToSet(crew_assignments) :
        /\ existing_assignment.astronaut_id = astronaut_id
        /\ existing_assignment.mission_id = mission_id

\* mutant: the scan for an existing assignment is left out
assign_error_no_scan(mission_id, assignment) ==
    IF mission_id # assignment.mission_id THEN "mission_id_mismatch"
    ELSE IF mission_id \notin DOMAIN missions_db THEN "mission_not_found"
    ELSE IF assignment.astronaut_id \notin DOMAIN astronauts_db
    THEN "astronaut_not_found"
    ELSE IF ~astronauts_db[assignment.astronaut_id].active
    THEN "astronaut_not_active"
    ELSE IF at_full_capacity(missions_db[mission_id])
    THEN "mission_at_full_capacity"
    ELSE "none"

\* mutant: the capacity is checked before the active flag
assign_error_capacity_first(mission_id, assignment) ==
    IF mission_id # assignment.mission_id THEN "mission_id_mismatch"
    ELSE IF mission_id \notin DOMAIN missions_db THEN "mission_not_found"
    ELSE IF assignment.astronaut_id \notin DOMAIN astronauts_db
    THEN "astronaut_not_found"
    ELSE IF at_full_capacity(missions_db[mission_id])
    THEN "mission_at_full_capacity"
    ELSE IF ~astronauts_db[assignment.astronaut_id].active
    THEN "astronaut_not_active"
    ELSE IF already_assigned(assignment.astronaut_id, mission_id)
    THEN "already_assigned"
    ELSE "none"

\* mutant: the path and the body are compared after the existence checks
assign_error_mismatch_late(mission_id, assignment) ==
    IF mission_id \notin DOMAIN missions_db THEN "mission_not_found"
    ELSE IF assignment.astronaut_id \notin DOMAIN astronauts_db
    THEN "astronaut_not_found"
    ELSE IF mission_id # assignment.mission_id THEN "mission_id_mismatch"
    ELSE IF ~astronauts_db[assignment.astronaut_id].active
    THEN "astronaut_not_active"
    ELSE IF at_full_capacity(missions_db[mission_id])
    THEN "mission_at_full_capacity"
    ELSE IF already_assigned(assignment.astronaut_id, mission_id)
    THEN "already_assigned"
    ELSE "none"

\* mutant: the active flag is checked last
assign_error_active_last(mission_id, assignment) ==
    IF mission_id # assignment.mission_id THEN "mission_id_mismatch"
    ELSE IF mission_id \notin DOMAIN missions_db THEN "mission_not_found"
    ELSE IF assignment.astronaut_id \notin DOMAIN astronauts_db
    THEN "astronaut_not_found"
    ELSE IF at_full_capacity(missions_db[mission_id])
    THEN "mission_at_full_capacity"
    ELSE IF already_assigned(assignment.astronaut_id, mission_id)
    THEN "already_assigned"
    ELSE IF ~astronauts_db[assignment.astronaut_id].active
    THEN "astronaut_not_active"
    ELSE "none"

\* main.py:378-423, the checks in the order the code makes them: the detail
\* of the first HTTPException raised, "none" when none is
assign_error(mission_id, assignment) ==
    IF mission_id # assignment.mission_id THEN "mission_id_mismatch"
    ELSE IF mission_id \notin DOMAIN missions_db THEN "mission_not_found"
    ELSE IF assignment.astronaut_id \notin DOMAIN astronauts_db
    THEN "astronaut_not_found"
    ELSE IF ~astronauts_db[assignment.astronaut_id].active
    THEN "astronaut_not_active"
    ELSE IF at_full_capacity(missions_db[mission_id])
    THEN "mission_at_full_capacity"
    ELSE IF already_assigned(assignment.astronaut_id, mission_id)
    THEN "already_assigned"
    ELSE "none"

\* the status_code each of them is raised with
status_code(error) ==
    IF error \in {"mission_not_found", "astronaut_not_found"} THEN 404 ELSE 400

\* mutant: the crew count is incremented before the scan for the pair, and
\* stays incremented when the scan raises
assign_counting_first(mission_id, assignment) ==
    LET error == assign_error(mission_id, assignment) IN
    IF error = "already_assigned"
    THEN /\ response' = Response(status_code(error), error)
         /\ returned' = NoContent
         /\ missions_db' = [missions_db EXCEPT
               ![mission_id].current_crew_count = @ + 1]
         /\ UNCHANGED <<astronauts_db, crew_assignments, astronaut_id_counter,
                        mission_id_counter, issued>>
    ELSE IF error # "none"
    THEN HTTPException(status_code(error), error)
    ELSE LET mission == missions_db[mission_id]
             astronaut == astronauts_db[assignment.astronaut_id] IN
         /\ crew_assignments' = append(crew_assignments,
               [astronaut_id |-> assignment.astronaut_id,
                mission_id |-> mission_id,
                role |-> assignment.role,
                astronaut_name |-> astronaut.name,
                mission_name |-> mission.name])
         /\ missions_db' = [missions_db EXCEPT
               ![mission_id].current_crew_count = @ + 1]
         /\ response' = Response(200, "none")
         /\ returned' = [astronaut |-> astronaut.name, mission |-> mission.name,
                          role |-> assignment.role,
                          crew_count |-> <<mission.current_crew_count + 1,
                                           mission.crew_capacity>>]
         /\ UNCHANGED <<astronauts_db, astronaut_id_counter,
                        mission_id_counter, issued>>

\* mutant: the assignment is appended and the crew count is left as it was
assign_forgetting_count(mission_id, assignment) ==
    LET error == assign_error(mission_id, assignment) IN
    IF error # "none"
    THEN HTTPException(status_code(error), error)
    ELSE LET mission == missions_db[mission_id]
             astronaut == astronauts_db[assignment.astronaut_id] IN
         /\ crew_assignments' = append(crew_assignments,
               [astronaut_id |-> assignment.astronaut_id,
                mission_id |-> mission_id,
                role |-> assignment.role,
                astronaut_name |-> astronaut.name,
                mission_name |-> mission.name])
         /\ response' = Response(200, "none")
         /\ returned' = [astronaut |-> astronaut.name, mission |-> mission.name,
                          role |-> assignment.role,
                          crew_count |-> <<mission.current_crew_count,
                                           mission.crew_capacity>>]
         /\ UNCHANGED <<astronauts_db, missions_db, astronaut_id_counter,
                        mission_id_counter, issued>>

assign_crew_to_mission(mission_id, assignment) ==
    LET error == assign_error(mission_id, assignment) IN
    IF error # "none"
    THEN HTTPException(status_code(error), error)
    ELSE LET mission == missions_db[mission_id]
             astronaut == astronauts_db[assignment.astronaut_id] IN
         /\ crew_assignments' = append(crew_assignments,
               [astronaut_id |-> assignment.astronaut_id,
                mission_id |-> mission_id,
                role |-> assignment.role,
                astronaut_name |-> astronaut.name,
                mission_name |-> mission.name])
         /\ missions_db' = [missions_db EXCEPT
               ![mission_id].current_crew_count = @ + 1]
         /\ response' = Response(200, "none")
         /\ returned' = [astronaut |-> astronaut.name, mission |-> mission.name,
                          role |-> assignment.role,
                          crew_count |-> <<mission.current_crew_count + 1,
                                           mission.crew_capacity>>]
         /\ UNCHANGED <<astronauts_db, astronaut_id_counter,
                        mission_id_counter, issued>>

\* len(list)
len(list) == BagCardinality(list)

\* [assignment for assignment in list if assignment[key] == id]
filter(list, key, id) ==
    [assignment \in {a \in BagToSet(list) : a[key] = id} |-> CopiesIn(assignment, list)]

get_astronaut(astronaut_id) ==
    IF astronaut_id \notin DOMAIN astronauts_db
    THEN HTTPException(404, "astronaut_not_found")
    ELSE /\ response' = Response(200, "none")
         /\ returned' = astronauts_db[astronaut_id]
         /\ UNCHANGED <<store, issued>>

get_mission(mission_id) ==
    IF mission_id \notin DOMAIN missions_db
    THEN HTTPException(404, "mission_not_found")
    ELSE /\ response' = Response(200, "none")
         /\ returned' = missions_db[mission_id]
         /\ UNCHANGED <<store, issued>>

\* mutant: the existence check is left out, and the name with it
get_mission_crew_unchecked(mission_id) ==
    LET mission_crew == filter(crew_assignments, "mission_id", mission_id) IN
    /\ response' = Response(200, "none")
    /\ returned' = [mission |-> <<>>,
                    crew_count |-> len(mission_crew),
                    crew_members |-> mission_crew]
    /\ UNCHANGED <<store, issued>>

get_mission_crew(mission_id) ==
    IF mission_id \notin DOMAIN missions_db
    THEN HTTPException(404, "mission_not_found")
    ELSE LET mission_crew == filter(crew_assignments, "mission_id", mission_id) IN
         /\ response' = Response(200, "none")
         /\ returned' = [mission |-> missions_db[mission_id].name,
                         crew_count |-> len(mission_crew),
                         crew_members |-> mission_crew]
         /\ UNCHANGED <<store, issued>>

get_astronaut_missions(astronaut_id) ==
    IF astronaut_id \notin DOMAIN astronauts_db
    THEN HTTPException(404, "astronaut_not_found")
    ELSE LET astronaut_missions ==
                 filter(crew_assignments, "astronaut_id", astronaut_id) IN
         /\ response' = Response(200, "none")
         /\ returned' = [astronaut |-> astronauts_db[astronaut_id].name,
                         mission_count |-> len(astronaut_missions),
                         missions |-> astronaut_missions]
         /\ UNCHANGED <<store, issued>>

-----------------------------------------------------------------------------
(* The routes: FastAPI builds the model from the body, answers 422 when    *)
(* that fails, and calls the handler with the model instance otherwise.    *)

post_astronauts(body) ==
    LET astronaut == Astronaut(body) IN
    IF astronaut.errors # {}
    THEN RequestValidationError(astronaut.errors)
    ELSE create_astronaut(astronaut.model)

put_astronaut(astronaut_id, body) ==
    LET astronaut_update == Astronaut(body) IN
    IF astronaut_update.errors # {}
    THEN RequestValidationError(astronaut_update.errors)
    ELSE update_astronaut(astronaut_id, astronaut_update.model)

post_missions(body) ==
    LET mission == Mission(body, now) IN
    IF mission.errors # {}
    THEN RequestValidationError(mission.errors)
    ELSE create_mission(mission.model)

put_mission(mission_id, body) ==
    LET mission_update == Mission(body, now) IN
    IF mission_update.errors # {}
    THEN RequestValidationError(mission_update.errors)
    ELSE update_mission(mission_id, mission_update.model)

-----------------------------------------------------------------------------
(* Spec: the clients' requests are handled one at a time, in any order.    *)

Next ==
    \/ \E id \in MissionIds, assignment \in CrewAssignment :
          assign_crew_to_mission(id, assignment) /\ UNCHANGED env
    \/ \E body \in AstronautBodies : post_astronauts(body) /\ UNCHANGED env
    \/ \E id \in AstronautIds, body \in AstronautBodies :
          put_astronaut(id, body) /\ UNCHANGED env
    \/ \E id \in AstronautIds : delete_astronaut(id) /\ UNCHANGED env
    \/ \E body \in MissionBodies : post_missions(body) /\ UNCHANGED env
    \/ \E id \in MissionIds, body \in MissionBodies :
          put_mission(id, body) /\ UNCHANGED env

Spec == Init /\ [][Next]_vars

-----------------------------------------------------------------------------
(* SpecConcurrent: clients submit assign requests at the same time.  A     *)
(* submitted request is decoded and its handler is scheduled; the event    *)
(* loop then runs the scheduled handlers one after the other, in any       *)
(* order, each to its end (assign_crew_to_mission has no await).           *)

submit_assign(mission_id, assignment) ==
    /\ Cardinality(inflight) < MaxInflight
    /\ [mission_id |-> mission_id, assignment |-> assignment] \notin inflight
    /\ inflight' = inflight \cup {[mission_id |-> mission_id, assignment |-> assignment]}
    /\ UNCHANGED <<store, response, returned, issued, fresh, candidate, now>>

run_assign(request) ==
    /\ request \in inflight
    /\ assign_crew_to_mission(request.mission_id, request.assignment)
    /\ inflight' = inflight \ {request}
    /\ UNCHANGED <<fresh, candidate, now>>

\* the clients of SpecConcurrent open missions without crew and ask for stored
\* crew members on stored missions
NewMissionBodies == {body \in MissionBodies : body.current_crew_count = 0}

NextConcurrent ==
    \/ \E body \in AstronautBodies : post_astronauts(body) /\ UNCHANGED env
    \/ \E body \in NewMissionBodies : post_missions(body) /\ UNCHANGED env
    \/ \E id \in AstronautIds, body \in AstronautBodies :
          put_astronaut(id, body) /\ UNCHANGED env
    \/ \E id \in AstronautIds : delete_astronaut(id) /\ UNCHANGED env
    \/ \E id \in DOMAIN missions_db, assignment \in CrewAssignment :
          /\ assignment.mission_id = id
          /\ assignment.astronaut_id \in DOMAIN astronauts_db
          /\ submit_assign(id, assignment)
    \/ \E request \in inflight : run_assign(request)

SpecConcurrent == Init /\ [][NextConcurrent]_vars

-----------------------------------------------------------------------------
(* SpecQueries: the clients of Spec also read: they fetch records and ask  *)
(* for the crew of a mission and the missions of a crew member.  The       *)
(* history `fresh` keeps, for every crew member not updated or deleted     *)
(* since its create, the body submitted and what the create returned.      *)

clients == <<inflight, candidate, now>>

\* the mission bodies of these clients: one that is valid and one that is not
QueryMissionBodies == {body \in MissionBodies : body.crew_capacity = 1}

remember(body) ==
    fresh' = IF response'.status = 201
             THEN Put(fresh, returned'.id, [body |-> body, returned |-> returned'])
             ELSE fresh

forget(astronaut_id) ==
    fresh' = IF response'.status \in {200, 204} THEN Del(fresh, astronaut_id) ELSE fresh

NextQueries ==
    \/ \E id \in MissionIds, assignment \in CrewAssignment :
          assign_crew_to_mission(id, assignment) /\ UNCHANGED env
    \/ \E body \in AstronautBodies :
          post_astronauts(body) /\ remember(body) /\ UNCHANGED clients
    \/ \E id \in AstronautIds, body \in AstronautBodies :
          put_astronaut(id, body) /\ forget(id) /\ UNCHANGED clients
    \/ \E id \in AstronautIds :
          delete_astronaut(id) /\ forget(id) /\ UNCHANGED clients
    \/ \E body \in QueryMissionBodies : post_missions(body) /\ UNCHANGED env
    \/ \E id \in MissionIds, body \in QueryMissionBodies :
          put_mission(id, body) /\ UNCHANGED env
    \/ \E id \in AstronautIds : get_astronaut(id) /\ UNCHANGED env
    \/ \E id \in MissionIds : get_mission(id) /\ UNCHANGED env
    \/ \E id \in MissionIds : get_mission_crew(id) /\ UNCHANGED env
    \/ \E id \in AstronautIds : get_astronaut_missions(id) /\ UNCHANGED env

SpecQueries == Init /\ [][NextQueries]_vars

-----------------------------------------------------------------------------
(* SpecValidate: one client, who submits the same crew-member body in      *)
(* every create and update; the body is any of WideBodies.                 *)

InitValidate == InitStore /\ candidate \in WideBodies

NextValidate ==
    \/ post_astronauts(candidate) /\ UNCHANGED env
    \/ \E id \in AstronautIds : put_astronaut(id, candidate) /\ UNCHANGED env
    \/ \E id \in AstronautIds : delete_astronaut(id) /\ UNCHANGED env

SpecValidate == InitValidate /\ [][NextValidate]_vars

-----------------------------------------------------------------------------
(* SpecNames: the client of SpecValidate, with a body whose name is any    *)
(* short text of letters, digits and blanks, or a long one.                *)

NameChars == {"A", "1", " "}
ShortNameLengths == 0..(NameMinLength + 1)

Names ==
    UNION {[1..n -> NameChars] : n \in ShortNameLengths}
    \cup {[i \in 1..n |-> "A"] : n \in {NameMaxLength, NameMaxLength + 1}}

NameBodies == {[SarahConnor EXCEPT !.name = n] : n \in Names}

InitNames == InitStore /\ candidate \in NameBodies

SpecNames == InitNames /\ [][NextValidate]_vars

-----------------------------------------------------------------------------
(* SpecLaunch: time passes, and the clients create and update missions     *)
(* that carry a launch date, or none.  A date is a tick of the clock.      *)

\* datetime.now() moves on between two requests
Tick ==
    /\ now < MaxClock
    /\ now' = now + 1
    /\ UNCHANGED <<store, response, returned, issued, fresh, inflight, candidate>>

LaunchDates == {NoDate} \cup 1..(MaxClock + 1)

LaunchBodies == {[MarsOdyssey EXCEPT !.launch_date = d] : d \in LaunchDates}

NextLaunch ==
    \/ Tick
    \/ \E body \in LaunchBodies : post_missions(body) /\ UNCHANGED env
    \/ \E id \in MissionIds, body \in LaunchBodies :
          put_mission(id, body) /\ UNCHANGED env

SpecLaunch == Init /\ [][NextLaunch]_vars

-----------------------------------------------------------------------------
(* The properties.                                                         *)

Missions == DOMAIN missions_db
Astronauts == DOMAIN astronauts_db

\* the assignment records of one mission, with their multiplicity
CrewSize(mission_id) ==
    BagCardinality([a \in {b \in BagToSet(crew_assignments) : b.mission_id = mission_id}
                       |-> CopiesIn(a, crew_assignments)])

\* C1: every stored mission has 0 <= current_crew_count <= crew_capacity,
\* after any sequence of creates, updates, deletes and assigns.
C1_CrewCountWithinCapacity ==
    \A m \in Missions :
        /\ 0 <= missions_db[m].current_crew_count
        /\ missions_db[m].current_crew_count <= missions_db[m].crew_capacity

\* a mission that two assigns have filled to its capacity of two
C1_Witness ==
    \E m \in Missions :
        /\ missions_db[m].crew_capacity = 2
        /\ missions_db[m].current_crew_count = 2
        /\ CrewSize(m) = 2
        /\ response = Response(200, "none")

Full(m) ==
    /\ m \in Missions
    /\ missions_db[m].current_crew_count = missions_db[m].crew_capacity

\* this step is assign_crew_to_mission(mission_id, assignment)
Assigns(mission_id, assignment) ==
    /\ response'.error = assign_error(mission_id, assignment)
    /\ assign_crew_to_mission(mission_id, assignment)

\* C2 as stated: an assign on a mission whose current_crew_count equals its
\* crew_capacity is answered 400 and changes neither the missions nor the
\* assignment collection.
C2_FullMissionAnswers400 ==
    [][\A m \in Missions : Full(m) =>
          \A assignment \in CrewAssignment : Assigns(m, assignment)
          => /\ response'.status = 400
             /\ UNCHANGED <<missions_db, crew_assignments>>]_vars

\* C2 amended: an assign on a full mission always fails and changes neither
\* the missions nor the assignment collection; it is answered 404 when the
\* body names the path's mission and a crew member that is not stored, and
\* 400 otherwise.
C2_FullMissionRefuses ==
    [][\A m \in Missions : Full(m) =>
          \A assignment \in CrewAssignment : Assigns(m, assignment)
          => /\ response'.status =
                   IF /\ assignment.mission_id = m
                      /\ assignment.astronaut_id \notin Astronauts
                   THEN 404 ELSE 400
             /\ UNCHANGED <<missions_db, crew_assignments>>]_vars

\* a full mission has just refused a stored, active crew member
C2_Witness ==
    /\ response = Response(400, "mission_at_full_capacity")
    /\ \E m \in Missions : Full(m)

\* C3: whatever the order in which the event loop runs the assign requests
\* that are in flight together, no mission's current_crew_count exceeds its
\* crew_capacity.
C3_NoOverbooking ==
    \A m \in Missions :
        missions_db[m].current_crew_count <= missions_db[m].crew_capacity

\* one of two requests for the last seat has taken it; the other still waits
C3_Witness ==
    \E request \in inflight :
        /\ Full(request.mission_id)
        /\ CrewSize(request.mission_id) >= 1
        /\ request.assignment.astronaut_id \in Astronauts
        /\ astronauts_db[request.assignment.astronaut_id].active
        /\ ~already_assigned(request.assignment.astronaut_id, request.mission_id)
        /\ response = Response(200, "none")

\* a record of the collection links the crew member and the mission
Assigned(a, m) ==
    \E r \in BagToSet(crew_assignments) : r.astronaut_id = a /\ r.mission_id = m

\* C4 as stated: once A is assigned to M, every later assign of A to M is
\* answered 400 and leaves the size of the assignment collection as it was.
C4_SecondAssignAnswers400 ==
    [][\A assignment \in CrewAssignment :
          (/\ Assigned(assignment.astronaut_id, assignment.mission_id)
           /\ Assigns(assignment.mission_id, assignment))
          => /\ response'.status = 400
             /\ BagCardinality(crew_assignments') = BagCardinality(crew_assignments)]_vars

\* C4 amended: once A is assigned to M, every later assign of A to M fails
\* and leaves the size of the assignment collection as it was; it is
\* answered 400 while A is stored and 404 once A has been deleted.
C4_SecondAssignRefused ==
    [][\A assignment \in CrewAssignment :
          (/\ Assigned(assignment.astronaut_id, assignment.mission_id)
           /\ Assigns(assignment.mission_id, assignment))
          => /\ response'.status =
                   IF assignment.astronaut_id \in Astronauts THEN 400 ELSE 404
             /\ BagCardinality(crew_assignments') = BagCardinality(crew_assignments)]_vars

\* the second assign of a pair has been refused as a duplicate
C4_Witness ==
    /\ response = Response(400, "already_assigned")
    /\ \E a \in Astronauts, m \in Missions : Assigned(a, m) /\ ~Full(m)

\* C5: the assignment collection never holds two records with the same
\* (astronaut_id, mission_id).
C5_PairsUnique ==
    \A r1 \in BagToSet(crew_assignments) :
        /\ CopiesIn(r1, crew_assignments) = 1
        /\ \A r2 \in BagToSet(crew_assignments) :
              (r1.astronaut_id = r2.astronaut_id /\ r1.mission_id = r2.mission_id)
              => r1 = r2

\* two records, one of a crew member deleted since, on a mission whose
\* current_crew_count an update has set below the number of its records
C5_Witness ==
    /\ BagCardinality(crew_assignments) >= 2
    /\ \E r \in BagToSet(crew_assignments) : r.astronaut_id \notin Astronauts
    /\ \E m \in Missions : missions_db[m].current_crew_count < CrewSize(m)

\* the rules of assign that a request with the path's mission in its body
\* violates, by their number
Violated(m, a) ==
       {k \in {1} : m \notin Missions}
    \cup {k \in {2} : a \notin Astronauts}
    \cup {k \in {3} : a \in Astronauts /\ ~astronauts_db[a].active}
    \cup {k \in {4} : m \in Missions /\
                     ~(missions_db[m].current_crew_count < missions_db[m].crew_capacity)}
    \cup {k \in {5} : Assigned(a, m)}

Lowest(S) == CHOOSE k \in S : \A j \in S : k <= j

RuleError(k) ==
    CASE k = 1 -> Response(404, "mission_not_found")
      [] k = 2 -> Response(404, "astronaut_not_found")
      [] k = 3 -> Response(400, "astronaut_not_active")
      [] k = 4 -> Response(400, "mission_at_full_capacity")
      [] k = 5 -> Response(400, "already_assigned")

\* C6: an assign whose body names the path's mission is answered with the
\* error of the lowest-numbered rule it violates (NotFound for 1-2, 400 for
\* 3-5) and then changes nothing; it succeeds when it violates none.
C6_FirstViolatedRule ==
    [][\A assignment \in CrewAssignment :
          Assigns(assignment.mission_id, assignment) =>
          LET V == Violated(assignment.mission_id, assignment.astronaut_id) IN
          IF V = {}
          THEN response' = Response(200, "none")
          ELSE response' = RuleError(Lowest(V)) /\ UNCHANGED <<store, issued>>]_vars

\* a request that violates rules 4 and 5 at once has been answered with rule 4's
\* error: every stored crew member is active and assigned to every mission,
\* and every mission is full
C6_Witness ==
    /\ response = Response(400, "mission_at_full_capacity")
    /\ Astronauts # {} /\ Missions # {}
    /\ \A a \in Astronauts, m \in Missions :
          astronauts_db[a].active /\ Assigned(a, m) /\ Full(m)

\* C7: an assign whose path and body name different missions is answered
\* 400 for the mismatch, whether or not the mission or the crew member
\* exists, and changes nothing.
C7_MismatchFirst ==
    [][\A m \in MissionIds, assignment \in CrewAssignment :
          (assignment.mission_id # m /\ Assigns(m, assignment))
          => /\ response' = Response(400, "mission_id_mismatch")
             /\ UNCHANGED <<store, issued>>]_vars

\* a mismatch has been answered where no crew member is stored and only one
\* of the two missions named exists
C7_Witness ==
    /\ response = Response(400, "mission_id_mismatch")
    /\ Astronauts = {}
    /\ Cardinality(Missions) = 1

\* C8: assigning a stored, inactive crew member to a stored mission is
\* answered 400 for the inactive crew member and changes neither the
\* missions nor the assignment collection, whether or not the mission is
\* full or the pair already assigned.
C8_InactiveRefused ==
    [][\A assignment \in CrewAssignment :
          (/\ assignment.mission_id \in Missions
           /\ assignment.astronaut_id \in Astronauts
           /\ ~astronauts_db[assignment.astronaut_id].active
           /\ Assigns(assignment.mission_id, assignment))
          => /\ response' = Response(400, "astronaut_not_active")
             /\ UNCHANGED <<missions_db, crew_assignments>>]_vars

\* an inactive crew member has been refused on a full mission it is already
\* assigned to
C8_Witness ==
    /\ response = Response(400, "astronaut_not_active")
    /\ \E a \in Astronauts, m \in Missions :
          /\ Astronauts = {a} /\ Missions = {m}
          /\ ~astronauts_db[a].active /\ Full(m) /\ Assigned(a, m)

\* C9: per kind, the k-th successful create returns identifier k, whatever
\* the body's id and whatever was updated or deleted before; every stored
\* record carries the key it is stored under, and every key was issued.
C9_IdentifiersInOrder ==
    /\ \A k \in 1..Len(issued.astronaut) : issued.astronaut[k] = k
    /\ \A k \in 1..Len(issued.mission) : issued.mission[k] = k
    /\ \A a \in Astronauts :
          astronauts_db[a].id = a /\ a \in 1..Len(issued.astronaut)
    /\ \A m \in Missions :
          missions_db[m].id = m /\ m \in 1..Len(issued.mission)

\* the second crew member has just been created after the first was deleted
C9_Witness ==
    /\ response = Response(201, "none")
    /\ issued.astronaut = <<1, 2>>
    /\ issued.mission = <<>>
    /\ Astronauts = {2}

\* C10: a crew-member body is accepted, on create or update, only if its
\* years_of_experience <= age - 18; with age in 21..65 and
\* years_of_experience in 0..40, a body with years_of_experience > age - 18
\* is answered 422 naming years_of_experience; every stored crew member has
\* years_of_experience <= age - 18.
C10_ExperienceWithinAge ==
    /\ \A a \in Astronauts :
          astronauts_db[a].years_of_experience <= astronauts_db[a].age - WorkingAge
    /\ response.status \in {200, 201}
          => candidate.years_of_experience <= candidate.age - WorkingAge
    /\ (/\ candidate.age \in AgeMin..AgeMax
        /\ candidate.years_of_experience \in ExperienceMin..ExperienceMax
        /\ candidate.years_of_experience > candidate.age - WorkingAge)
          => /\ Astronauts = {}
             /\ response.status \in {0, 404, 422}
             /\ response.status = 422 => "years_of_experience" \in response.fields

\* a body with one year of experience too many has been answered 422
C10_Witness ==
    /\ candidate.age \in AgeMin..AgeMax
    /\ candidate.years_of_experience = candidate.age - WorkingAge + 1
    /\ response.status = 422
    /\ response.fields = {"years_of_experience"}

\* the answer to this step is a 200 that returns the record stored under i
ReturnsStored(db, i) ==
    /\ response'.status = 200
    /\ i \in DOMAIN db
    /\ returned' = db[i]

\* the record has the body's value in each of the fields
Carries(record, body, fields) == \A f \in fields : record[f] = body[f]

\* the fields of a body that no validator rewrites and no handler sets
PlainFields(body) == DOMAIN body \ {"id", "name"}

\* C11: a successful update at path identifier i is a full replacement: the
\* record stored under i is the submitted record, normalized, with its id set
\* to i whatever the body's id; no key is added or removed, every other record
\* is as it was, and both identifier counters are unchanged.
C11_FullReplacement ==
    [][/\ \A i \in AstronautIds : ReturnsStored(astronauts_db', i) =>
             \A body \in AstronautBodies :
                (Carries(returned', body, PlainFields(body)) /\ put_astronaut(i, body))
             => /\ astronauts_db'[i] =
                      [body EXCEPT !.name = strip(body.name), !.id = i]
                /\ i \in Astronauts
                /\ DOMAIN astronauts_db' = DOMAIN astronauts_db
                /\ \A k \in Astronauts \ {i} : astronauts_db'[k] = astronauts_db[k]
                /\ UNCHANGED <<missions_db, astronaut_id_counter, mission_id_counter>>
       /\ \A i \in MissionIds : ReturnsStored(missions_db', i) =>
             \A body \in MissionBodies :
                (Carries(returned', body, PlainFields(body)) /\ put_mission(i, body))
             => /\ missions_db'[i] =
                      [body EXCEPT !.name = title(strip(body.name)), !.id = i]
                /\ i \in Missions
                /\ DOMAIN missions_db' = DOMAIN missions_db
                /\ \A k \in Missions \ {i} : missions_db'[k] = missions_db[k]
                /\ UNCHANGED <<astronauts_db, astronaut_id_counter, mission_id_counter>>
      ]_vars

\* no crew member was ever created, so the 200 answers an update of mission 1;
\* the only valid body with capacity 1 carries id 7, and was stored with id 1
C11_Witness ==
    /\ response = Response(200, "none")
    /\ issued.astronaut = <<>>
    /\ Missions = {1}
    /\ returned = missions_db[1]
    /\ missions_db[1].crew_capacity = 1
    /\ missions_db[1].id = 1

\* C12: fetching a crew member by the identifier its create returned, with no
\* update or delete of that identifier in between, returns the field values
\* the create returned; the name stored and returned is the submitted name,
\* trimmed.
C12_RoundTrip ==
    [][\A id \in DOMAIN fresh :
          (response'.status = 200 /\ get_astronaut(id))
          => /\ returned' = fresh[id].returned
             /\ returned'.name = strip(fresh[id].body.name)
             /\ astronauts_db[id].name = strip(fresh[id].body.name)]_vars

\* the crew member created from the body with the padded name has been
\* fetched, after another crew member and a mission were created
C12_Witness ==
    /\ response = Response(200, "none")
    /\ 1 \in DOMAIN fresh
    /\ fresh[1].body.name = <<" ", "A", "l", " ">>
    /\ returned = fresh[1].returned
    /\ returned.name = <<"A", "l">>
    /\ 2 \in Astronauts
    /\ Missions # {}

\* C13: every stored crew member has a name that, as stored, is between 2
\* and 100 characters long, contains no digit, and has no leading or
\* trailing whitespace.
C13_StoredNameWellFormed ==
    \A a \in Astronauts :
        LET name == astronauts_db[a].name IN
        /\ Len(name) >= 2 /\ Len(name) <= 100
        /\ \A i \in 1..Len(name) : name[i] \notin Digits
        /\ name # <<>> => Head(name) \notin Whitespace /\ name[Len(name)] \notin Whitespace

\* C14: a mission body that carries a launch date is accepted, on create or
\* update, only if the date is strictly later than the time of validation; a
\* date equal to or earlier than that time is rejected, and a body without a
\* launch date is accepted.
C14_LaunchStrictlyFuture ==
    [][/\ \A body \in LaunchBodies :
             post_missions(body) =>
                (response'.status = 201
                 <=> (body.launch_date = NoDate \/ body.launch_date > now))
       /\ \A id \in Missions, body \in LaunchBodies :
             put_mission(id, body) =>
                (response'.status = 200
                 <=> (body.launch_date = NoDate \/ body.launch_date > now))
      ]_vars

\* C15: every request answered with an error (422 for a body that fails
\* validation, 404 for an identifier that names nothing, 400 for a mismatch
\* or a rule of assign) leaves the crew members, the missions, the assignment
\* collection and both identifier counters exactly as they were.
C15_ErrorsChangeNothing ==
    [][response'.status >= 400 =>
          /\ response'.status \in {400, 404, 422}
          /\ returned' = NoContent
          /\ UNCHANGED <<astronauts_db, missions_db, crew_assignments,
                         astronaut_id_counter, mission_id_counter>>]_vars

\* a body has failed validation while crew members, missions and assignments
\* are stored
C15_Witness ==
    /\ response.status = 422
    /\ response.fields # {}
    /\ Astronauts # {} /\ Missions # {}
    /\ crew_assignments # EmptyBag

\* C16: the delete of a stored crew member removes that crew member's entry
\* and nothing else: the other crew members, the assignment collection, every
\* mission (its current_crew_count with it) and both identifier counters are
\* unchanged; so an assignment record may name a crew member that is no
\* longer stored.
C16_DeleteDoesNotCascade ==
    [][\A id \in Astronauts :
          (response'.status = 204 /\ delete_astronaut(id))
          => /\ DOMAIN astronauts_db' = Astronauts \ {id}
             /\ \A k \in Astronauts \ {id} : astronauts_db'[k] = astronauts_db[k]
             /\ crew_assignments' = crew_assignments
             /\ missions_db' = missions_db
             /\ astronaut_id_counter' = astronaut_id_counter
             /\ mission_id_counter' = mission_id_counter
             /\ \A r \in BagToSet(crew_assignments) :
                   r.astronaut_id = id =>
                      /\ r \in BagToSet(crew_assignments')
                      /\ r.astronaut_id \notin DOMAIN astronauts_db']_vars

\* an assigned crew member has just been deleted: its record remains and its
\* mission still counts it
C16_Witness ==
    /\ response = Response(204, "none")
    /\ \E r \in BagToSet(crew_assignments) :
          /\ r.astronaut_id \notin Astronauts
          /\ r.mission_id \in Missions
          /\ missions_db[r.mission_id].current_crew_count = CrewSize(r.mission_id)
          /\ CrewSize(r.mission_id) = 1

\* C17: a successful update of a stored mission stores the body's
\* current_crew_count, also when that differs from the number of assignment
\* records of the mission, and leaves the assignment collection alone; so a
\* stored mission's current_crew_count may differ from the number of its
\* assignment records.
C17_UpdateStoresSubmittedCount ==
    [][\A i \in Missions : ReturnsStored(missions_db', i) =>
          \A body \in MissionBodies :
             (Carries(returned', body, {"crew_capacity"}) /\ put_mission(i, body))
          => /\ missions_db'[i].current_crew_count = body.current_crew_count
             /\ crew_assignments' = crew_assignments]_vars

\* an update has just set the count of a mission with assignment records to
\* zero
C17_Witness ==
    /\ response = Response(200, "none")
    /\ \E m \in Missions :
          /\ returned = missions_db[m]
          /\ CrewSize(m) >= 1
          /\ missions_db[m].current_crew_count = 0

\* the records of the collection chosen by `keep`, each as often as the
\* collection holds it, and no other
Exactly(bag, keep(_)) ==
    /\ \A r \in BagToSet(bag) : keep(r) /\ CopiesIn(r, bag) = CopiesIn(r, crew_assignments)
    /\ \A r \in BagToSet(crew_assignments) : keep(r) => r \in BagToSet(bag)

\* C18: the crew query of m returns exactly the assignment records whose
\* mission_id is m, and the missions query of a exactly those whose
\* astronaut_id is a; each answers 404 when the mission, or the crew member,
\* is not stored, whatever records name it; neither changes any state.
C18_QueriesFilter ==
    [][/\ \A m \in MissionIds : get_mission_crew(m) =>
             /\ UNCHANGED <<store, issued>>
             /\ IF m \notin Missions
                THEN response' = Response(404, "mission_not_found")
                ELSE /\ response' = Response(200, "none")
                     /\ LET of_m(r) == r.mission_id = m IN
                        Exactly(returned'.crew_members, of_m)
                     /\ returned'.crew_count = CrewSize(m)
       /\ \A a \in AstronautIds : get_astronaut_missions(a) =>
             /\ UNCHANGED <<store, issued>>
             /\ IF a \notin Astronauts
                THEN response' = Response(404, "astronaut_not_found")
                ELSE /\ response' = Response(200, "none")
                     /\ LET of_a(r) == r.astronaut_id = a IN
                        Exactly(returned'.missions, of_a)
                     /\ returned'.mission_count = BagCardinality(returned'.missions)
      ]_vars

\* the crew query of a mission has returned one record of the two in the
\* collection, the record of a crew member deleted since
C18_Witness ==
    /\ response = Response(200, "none")
    /\ DOMAIN returned = {"mission", "crew_count", "crew_members"}
    /\ returned.crew_count = 1
    /\ BagCardinality(crew_assignments) = 2
    /\ \E r \in BagToSet(returned.crew_members) :
          /\ r.astronaut_id \notin Astronauts
          /\ CopiesIn(r, crew_assignments) = 1

\* C19: when every mission is created with current_crew_count 0 and no
\* mission is ever updated, each stored mission's current_crew_count is the
\* number of assignment records with that mission's identifier, after every
\* operation: creates, crew-member updates and deletes, assigns that succeed
\* and assigns that fail.
C19_CountIsCrewSize ==
    \A m \in Missions : missions_db[m].current_crew_count = CrewSize(m)

\* an assign has just failed on a mission with two records, one of them of a
\* crew member deleted since
C19_Witness ==
    /\ response.status \in {400, 404}
    /\ \E m \in Missions :
          /\ CrewSize(m) = 2
          /\ missions_db[m].current_crew_count = 2
          /\ \E r \in BagToSet(crew_assignments) :
                r.mission_id = m /\ r.astronaut_id \notin Astronauts

\* C20: for every stored mission, the number of assignment records with that
\* mission's identifier never exceeds the mission's crew_capacity, after any
\* sequence of creates, updates, deletes and assigns.
C20_CrewSizeWithinCapacity ==
    \A m \in Missions : CrewSize(m) <= missions_db[m].crew_capacity

\* C21: every assignment record names a mission that is stored (no mission
\* is ever removed) and a crew member whose identifier the counter has
\* issued: its astronaut_id is at least 1 and strictly less than
\* astronaut_id_counter.
C21_AssignmentReferences ==
    \A r \in BagToSet(crew_assignments) :
        /\ r.mission_id \in Missions
        /\ r.astronaut_id >= 1
        /\ r.astronaut_id < astronaut_id_counter

\* the mission of a record has just been updated, after the crew member of
\* that record was deleted
C21_Witness ==
    /\ response = Response(200, "none")
    /\ \E r \in BagToSet(crew_assignments) :
          /\ r.astronaut_id \notin Astronauts
          /\ r.mission_id \in Missions
          /\ returned = missions_db[r.mission_id]
          /\ returned.current_crew_count = 0

====
